---- MODULE Spec2Model ----
(***************************************************************************)
(* dhis2kit: the HTTP request layer (_check_response, _request), the       *)
(* single-page fetch (list_metadata) and the paging iterators              *)
(* (iter_metadata / aiter_metadata) of src/dhis2kit/client.py.             *)
(*                                                                         *)
(* JSON values are tagged records: [t |-> "null"], [t |-> "int", v |-> n], *)
(* [t |-> "str", v |-> s], [t |-> "list", v |-> <<...>>] and               *)
(* [t |-> "dict", v |-> f].  A Python dict is a function whose DOMAIN is   *)
(* its key set.  An item of a page is the pair <<page, position>>.         *)
(***************************************************************************)
EXTENDS Integers, Sequences, FiniteSets, TLC

\* ------------------------------------------------------------ bounds
MaxPageSize == 2
MaxItems == 2
MaxStartPage == 2
MaxCap == 2
MaxPageCount == 2
MaxPage == 3
MaxCalls == 3

\* ------------------------------------------------------------ values
None == [t |-> "null"]
JInt(n) == [t |-> "int", v |-> n]
JStr(s) == [t |-> "str", v |-> s]
JList(s) == [t |-> "list", v |-> s]
JDict(d) == [t |-> "dict", v |-> d]
EmptyDict == [k \in {} |-> None]

\* d.get(k): the value under k, None when k is not a key
Get(d, k) == IF k \in DOMAIN d THEN d[k] ELSE None

\* d.get(k, default)
GetOr(d, k, default) == IF k \in DOMAIN d THEN d[k] ELSE default

\* d.update(e): the keys of e win
Update(d, e) ==
    [k \in DOMAIN d \cup DOMAIN e |-> IF k \in DOMAIN e THEN e[k] ELSE d[k]]

\* d.setdefault(k, v): d itself when k is a key of d
SetDefault(d, k, v) ==
    IF k \in DOMAIN d THEN d ELSE [x \in DOMAIN d \cup {k} |-> IF x = k THEN v ELSE d[x]]

\* Python truthiness of a JSON value
Truthy(x) ==
    CASE x.t = "null" -> FALSE
      [] x.t = "int" -> x.v # 0
      [] x.t = "str" -> x.v # ""
      [] x.t = "list" -> Len(x.v) > 0
      [] x.t = "dict" -> DOMAIN x.v # {}

\* a or b
Or(a, b) == IF Truthy(a) THEN a ELSE b

\* ------------------------------------------------------------ outcomes
Return(value) == [ok |-> TRUE, value |-> value]
Raise(kind, msg) == [ok |-> FALSE, kind |-> kind, msg |-> msg]
NoRaise == [ok |-> TRUE]

\* ------------------------------------------------------------ _check_response
check_response(resp) ==
    LET status == resp.status IN
    IF status \in {401, 403} THEN Raise("AuthenticationError", <<"text">>)
    ELSE IF status = 404 THEN Raise("NotFoundError", <<"text">>)
    ELSE IF status \in {400, 409} THEN Raise("ValidationError", <<"text">>)
    ELSE IF 400 <= status /\ status < 500 THEN Raise("ServerError", <<"status", "text">>)
    ELSE IF status >= 500 THEN Raise("ServerError", <<"status", "text">>)
    ELSE NoRaise

\* content types the server may send, lower-cased by the client; the ones
\* that contain "application/json" after lower-casing
ContentTypes ==
    {"", "text/html", "application/json", "Application/JSON; charset=UTF-8"}
HasJson(ctype) == ctype \in {"application/json", "Application/JSON; charset=UTF-8"}

\* ------------------------------------------------------------ _request
\* resp = [status, ctype, content]: content is "" (no bytes), "garbage"
\* (bytes that are not JSON) or the JSON value the bytes decode to.
NoContent(resp) == resp.content.t = "bytes" /\ resp.content.v = ""
Decodable(resp) == resp.content.t # "bytes"

\* A variant that looks at the body before the status.
request_body_first(method, resp) ==
    LET chk == check_response(resp) IN
    IF resp.status = 204 \/ NoContent(resp) THEN Return(EmptyDict)
    ELSE IF ~chk.ok THEN chk
    ELSE IF ~HasJson(resp.ctype) THEN Raise("ServerError", <<"ctype", "text200">>)
    ELSE IF ~Decodable(resp) THEN Raise("ServerError", <<"decode", "text200">>)
    ELSE Return(resp.content.v)

\* A variant that looks at the content type before the 204 / empty-body test.
request_ctype_first(method, resp) ==
    LET chk == check_response(resp) IN
    IF ~chk.ok THEN chk
    ELSE IF ~HasJson(resp.ctype) THEN Raise("ServerError", <<"ctype", "text200">>)
    ELSE IF resp.status = 204 \/ NoContent(resp) THEN Return(EmptyDict)
    ELSE IF ~Decodable(resp) THEN Raise("ServerError", <<"decode", "text200">>)
    ELSE Return(resp.content.v)

request(method, resp) ==
    LET chk == check_response(resp) IN
    IF ~chk.ok THEN chk
    ELSE IF resp.status = 204 \/ NoContent(resp) THEN Return(EmptyDict)
    ELSE IF ~HasJson(resp.ctype) THEN Raise("ServerError", <<"ctype", "text200">>)
    ELSE IF ~Decodable(resp) THEN Raise("ServerError", <<"decode", "text200">>)
    ELSE Return(resp.content.v)

arequest(method, resp) ==
    LET chk == check_response(resp) IN
    IF ~chk.ok THEN chk
    ELSE IF resp.status = 204 \/ NoContent(resp) THEN Return(EmptyDict)
    ELSE IF ~HasJson(resp.ctype) THEN Raise("ServerError", <<"ctype", "text200">>)
    ELSE IF ~Decodable(resp) THEN Raise("ServerError", <<"decode", "text200">>)
    ELSE Return(resp.content.v)

\* get(endpoint, params) is _request("GET", ...)
get(resp) == request("GET", resp)
aget(resp) == arequest("GET", resp)

\* ------------------------------------------------------------ _extract_paging
PagingFields == {"page", "pageSize", "pageCount", "total"}

\* A variant that prefers the top-level keys when the response has any.
extract_paging_flat_first(pl) ==
    IF PagingFields \cap DOMAIN pl # {} \/ "pager" \notin DOMAIN pl \/ pl["pager"].t # "dict"
    THEN [f \in PagingFields |-> Get(pl, f)]
    ELSE [f \in PagingFields |-> Get(pl["pager"].v, f)]

extract_paging(payload) ==
    IF "pager" \in DOMAIN payload /\ payload["pager"].t = "dict"
    THEN LET p == payload["pager"].v IN
         [page |-> Get(p, "page"), pageSize |-> Get(p, "pageSize"),
          pageCount |-> Get(p, "pageCount"), total |-> Get(p, "total")]
    ELSE [page |-> Get(payload, "page"), pageSize |-> Get(payload, "pageSize"),
          pageCount |-> Get(payload, "pageCount"), total |-> Get(payload, "total")]

\* ------------------------------------------------------------ list_metadata
\* ",".join(parts)
RECURSIVE Join(_)
Join(parts) ==
    IF Len(parts) = 0 THEN ""
    ELSE IF Len(parts) = 1 THEN parts[1]
    ELSE parts[1] \o "," \o Join(Tail(parts))

\* fields if isinstance(fields, str) else ",".join(fields)
fields_of(fields) == IF fields.t = "str" THEN fields.v ELSE Join(fields.v)

\* A variant that merges the extra parameters first, so that the built-in
\* values win.
list_params_extra_first(fields, page, page_size, total_pages, extra_params) ==
    LET p0 == [k \in {"fields", "pageSize"} |->
                 IF k = "fields" THEN JStr(fields_of(fields)) ELSE JInt(page_size)]
        p1 == IF page # None THEN Update(p0, [k \in {"page"} |-> page]) ELSE p0
        p2 == IF total_pages THEN Update(p1, [k \in {"totalPages"} |-> JStr("true")]) ELSE p1
    IN Update(extra_params, p2)

\* the query parameters of one list_metadata call
list_params(fields, page, page_size, total_pages, extra_params) ==
    LET p0 == [k \in {"fields", "pageSize"} |->
                 IF k = "fields" THEN JStr(fields_of(fields)) ELSE JInt(page_size)]
        p1 == IF page # None THEN Update(p0, [k \in {"page"} |-> page]) ELSE p0
        p2 == IF total_pages THEN Update(p1, [k \in {"totalPages"} |-> JStr("true")]) ELSE p1
    IN Update(p2, extra_params)

alist_params(fields, page, page_size, total_pages, extra_params) ==
    LET p0 == [k \in {"fields", "pageSize"} |->
                 IF k = "fields" THEN JStr(fields_of(fields)) ELSE JInt(page_size)]
        p1 == IF page # None THEN Update(p0, [k \in {"page"} |-> page]) ELSE p0
        p2 == IF total_pages THEN Update(p1, [k \in {"totalPages"} |-> JStr("true")]) ELSE p1
    IN Update(p2, extra_params)

\* the resolved collection key: collection_key or resource
coll_key_of(collection_key, resource) == Or(collection_key, JStr(resource)).v

\* A variant that returns the decoded body as it came.
list_metadata_asis(resource, collection_key, resp) == get(resp)

\* what list_metadata returns (or raises) for the response the server gave
list_metadata(resource, collection_key, resp) ==
    LET coll_key == coll_key_of(collection_key, resource)
        out == get(resp)
    IN IF ~out.ok THEN out
       ELSE Return(SetDefault(out.value, coll_key, GetOr(out.value, coll_key, JList(<<>>))))

alist_metadata(resource, collection_key, resp) ==
    LET coll_key == coll_key_of(collection_key, resource)
        out == aget(resp)
    IN IF ~out.ok THEN out
       ELSE Return(SetDefault(out.value, coll_key, GetOr(out.value, coll_key, JList(<<>>))))

\* ------------------------------------------------------------ the server
Resource == "dataElements"
Fields == JStr("id,displayName")

\* the items the server holds for page p when it serves n of them
PageItems(p, n) == JList([j \in 1..n |-> <<p, j>>])

\* what the server may put under the collection key: nothing, null, or n items
CollForms == {<<"absent", 0>>, <<"null", 0>>} \cup ({"list"} \X (0..MaxItems))

\* where it may report pageCount: nowhere, in "pager" (any count), or at the
\* top level (the largest count)
PagingForms ==
    {<<"none", 0>>} \cup ({"nested"} \X (0..MaxPageCount)) \cup {<<"flat", MaxPageCount>>}

PayloadOf(key, p, coll, paging) ==
    LET c == IF coll[1] = "absent" THEN EmptyDict
             ELSE [k \in {key} |->
                     IF coll[1] = "null" THEN None ELSE PageItems(p, coll[2])]
        g == IF paging[1] = "none" THEN EmptyDict
             ELSE IF paging[1] = "flat" THEN [k \in {"pageCount"} |-> JInt(paging[2])]
             ELSE [k \in {"pager"} |-> JDict([x \in {"page", "pageCount"} |->
                                                IF x = "page" THEN JInt(p) ELSE JInt(paging[2])])]
    IN Update(c, g)

Json200(payload) ==
    [status |-> 200, ctype |-> "application/json", content |-> [t |-> "json", v |-> payload]]
Text(status) ==
    [status |-> status, ctype |-> "text/html", content |-> [t |-> "bytes", v |-> "garbage"]]
Empty(status) ==
    [status |-> status, ctype |-> "", content |-> [t |-> "bytes", v |-> ""]]

\* the responses the server may give to the request for page p
OkResponses(p) ==
    {Json200(PayloadOf(Resource, p, c, g)) : c \in CollForms, g \in PagingForms}
ErrResponses == {Text(401), Text(404), Text(409), Text(500), Text(200), Empty(204)}
Responses(p) == OkResponses(p) \cup ErrResponses

\* the smaller set it draws from when two iterations run against it
PairResponses(p) ==
    {Json200(PayloadOf(Resource, p, <<"list", n>>, g)) :
        n \in 0..MaxItems, g \in {<<"none", 0>>, <<"nested", MaxPageCount>>}}
    \cup {Text(404)}

Unset == [status |-> 0]

\* ------------------------------------------------------------ state
VARIABLES
    server,         \* page -> the response the server gives for it (Unset: not asked yet)
    args,           \* iteration -> the arguments of its iter_metadata / aiter_metadata call
    pc,             \* iteration -> where its generator stands
    page,           \* iteration -> the local `page` (the cursor)
    fetched_pages,  \* iteration -> the local `fetched_pages`
    payload,        \* iteration -> the local `payload`
    items,          \* iteration -> the local `items`
    idx,            \* iteration -> how many of `items` were yielded
    emitted,        \* iteration -> the items its consumer received, in order
    outcome,        \* iteration -> "none", "end" or the error kind the consumer got
    reqs,           \* iteration -> the query parameters of the requests it issued
    late,           \* iteration -> what a next() made after its end gave ("none": none made)
    call,           \* the input of a single _request / list_metadata call
    result,         \* what that call gave, sync and async
    conn            \* self.client of one client, and the lifecycle calls made on it

vars == <<server, args, pc, page, fetched_pages, payload, items, idx, emitted,
          outcome, reqs, late, call, result, conn>>

Iters == {1, 2}
Pages == 1..MaxPage

itervars == <<server, args, pc, page, fetched_pages, payload, items, idx, emitted,
              outcome, reqs, late>>
callvars == <<call, result, conn>>

\* ------------------------------------------------------------ iter_metadata
\* **extra_params of the caller: none, one that passes through, one whose key
\* is a built-in query parameter
ExtraParams ==
    {EmptyDict, [k \in {"order"} |-> JStr("name")], [k \in {"totalPages"} |-> JStr("false")]}

\* the arguments of a call; extra parameters go with one choice of the others
ArgSets ==
    {a \in [mode : {"sync", "async"},
            page_size : 1..MaxPageSize,
            start_page : 1..MaxStartPage,
            max_pages : {None} \cup {JInt(m) : m \in (-1)..MaxCap},
            collection_key : {None},
            extra_params : ExtraParams] :
        a.extra_params # EmptyDict =>
            a.page_size = 1 /\ a.start_page = 1 /\ a.max_pages = JInt(2)}

\* Variants of that decision, each with one slip: "early" stops one page
\* before pageCount, "full" takes a full page for a short one, "late" lets the
\* cap through once more, "empty" takes an empty page for the end, "nocap"
\* never looks at max_pages, "short" lets a short page end the iteration
\* whatever pageCount says, "exact" goes on only from a page of exactly
\* page_size items, "beyond" compares the cursor with pageCount before it
\* advances.
advance_variant(pl, nitems, pg, fetched, page_size, max_pages, slip) ==
    LET paging == extract_paging(pl)
        page_count == paging.pageCount
        capped(f) == /\ max_pages # None /\ slip # "nocap"
                     /\ IF slip = "late" THEN f > max_pages.v ELSE f >= max_pages.v
        short == IF slip = "full" THEN nitems <= page_size
                 ELSE IF slip = "exact" THEN nitems # page_size
                 ELSE nitems < page_size
        over == IF slip = "early" THEN pg + 1 >= page_count.v
                ELSE IF slip = "beyond" THEN pg > page_count.v
                ELSE pg + 1 > page_count.v
    IN IF \/ slip = "empty" /\ nitems = 0
          \/ slip = "short" /\ nitems < page_size
       THEN [stop |-> TRUE, page |-> pg, fetched_pages |-> fetched]
       ELSE IF page_count = None
       THEN IF short
            THEN [stop |-> TRUE, page |-> pg, fetched_pages |-> fetched]
            ELSE [stop |-> capped(fetched + 1), page |-> pg + 1, fetched_pages |-> fetched + 1]
       ELSE IF over
            THEN [stop |-> TRUE, page |-> pg + 1, fetched_pages |-> fetched]
            ELSE [stop |-> capped(fetched + 1), page |-> pg + 1, fetched_pages |-> fetched + 1]

iter_advance_early(pl, nitems, pg, fetched, page_size, max_pages) ==
    advance_variant(pl, nitems, pg, fetched, page_size, max_pages, "early")
iter_advance_full(pl, nitems, pg, fetched, page_size, max_pages) ==
    advance_variant(pl, nitems, pg, fetched, page_size, max_pages, "full")
iter_advance_late(pl, nitems, pg, fetched, page_size, max_pages) ==
    advance_variant(pl, nitems, pg, fetched, page_size, max_pages, "late")
iter_advance_empty(pl, nitems, pg, fetched, page_size, max_pages) ==
    advance_variant(pl, nitems, pg, fetched, page_size, max_pages, "empty")
iter_advance_short(pl, nitems, pg, fetched, page_size, max_pages) ==
    advance_variant(pl, nitems, pg, fetched, page_size, max_pages, "short")
iter_advance_exact(pl, nitems, pg, fetched, page_size, max_pages) ==
    advance_variant(pl, nitems, pg, fetched, page_size, max_pages, "exact")
iter_advance_beyond(pl, nitems, pg, fetched, page_size, max_pages) ==
    advance_variant(pl, nitems, pg, fetched, page_size, max_pages, "beyond")
iter_advance_nocap(pl, nitems, pg, fetched, page_size, max_pages) ==
    advance_variant(pl, nitems, pg, fetched, page_size, max_pages, "nocap")

\* the decision after the items of a page were yielded: stop, or the new cursor
\* and count with which the loop goes round (client.py 212-224)
iter_advance(pl, nitems, pg, fetched, page_size, max_pages) ==
    LET paging == extract_paging(pl)
        page_count == paging.pageCount
        capped(f) == max_pages # None /\ f >= max_pages.v
    IN IF page_count = None
       THEN IF nitems < page_size
            THEN [stop |-> TRUE, page |-> pg, fetched_pages |-> fetched]
            ELSE [stop |-> capped(fetched + 1), page |-> pg + 1, fetched_pages |-> fetched + 1]
       ELSE IF pg + 1 > page_count.v
            THEN [stop |-> TRUE, page |-> pg + 1, fetched_pages |-> fetched]
            ELSE [stop |-> capped(fetched + 1), page |-> pg + 1, fetched_pages |-> fetched + 1]

aiter_advance_full(pl, nitems, pg, fetched, page_size, max_pages) ==
    advance_variant(pl, nitems, pg, fetched, page_size, max_pages, "full")

\* the same decision in aiter_metadata (client.py 382-394)
aiter_advance(pl, nitems, pg, fetched, page_size, max_pages) ==
    LET paging == extract_paging(pl)
        page_count == paging.pageCount
        capped(f) == max_pages # None /\ f >= max_pages.v
    IN IF page_count = None
       THEN IF nitems < page_size
            THEN [stop |-> TRUE, page |-> pg, fetched_pages |-> fetched]
            ELSE [stop |-> capped(fetched + 1), page |-> pg + 1, fetched_pages |-> fetched + 1]
       ELSE IF pg + 1 > page_count.v
            THEN [stop |-> TRUE, page |-> pg + 1, fetched_pages |-> fetched]
            ELSE [stop |-> capped(fetched + 1), page |-> pg + 1, fetched_pages |-> fetched + 1]

\* items = payload.get(coll_key, []) or []
items_of(pl, coll_key) == Or(GetOr(pl, coll_key, JList(<<>>)), JList(<<>>)).v

\* the parameters of the request the iterator issues for page pg
iter_request(a, pg) ==
    IF a.mode = "sync"
    THEN list_params(Fields, JInt(pg), a.page_size, TRUE, a.extra_params)
    ELSE alist_params(Fields, JInt(pg), a.page_size, TRUE, a.extra_params)

\* A variant that passes over a failed fetch as if the page were empty.
iter_fetch_skip(a, resp) ==
    LET coll_key == JStr(coll_key_of(a.collection_key, Resource))
        out == IF a.mode = "sync" THEN list_metadata(Resource, coll_key, resp)
               ELSE alist_metadata(Resource, coll_key, resp)
    IN IF out.ok THEN out ELSE Return([k \in {coll_key.v} |-> JList(<<>>)])

\* what the list_metadata call of the iterator gives for the server's response
iter_fetch(a, resp) ==
    LET coll_key == JStr(coll_key_of(a.collection_key, Resource)) IN
    IF a.mode = "sync" THEN list_metadata(Resource, coll_key, resp)
    ELSE alist_metadata(Resource, coll_key, resp)

\* A variant that keeps the paging data of the first page it fetched and
\* decides from it after every later page.
advance_of_remembered(i, pl, its) ==
    LET first == server[args[i].start_page]
        kept == IF first = Unset THEN pl ELSE iter_fetch(args[i], first).value
    IN IF args[i].mode = "sync"
       THEN iter_advance(kept, Len(its), page[i], fetched_pages[i],
                         args[i].page_size, args[i].max_pages)
       ELSE aiter_advance(kept, Len(its), page[i], fetched_pages[i],
                          args[i].page_size, args[i].max_pages)

\* the decision iteration i takes after the page with payload pl and items its
advance_of(i, pl, its) ==
    IF args[i].mode = "sync"
    THEN iter_advance(pl, Len(its), page[i], fetched_pages[i],
                      args[i].page_size, args[i].max_pages)
    ELSE aiter_advance(pl, Len(its), page[i], fetched_pages[i],
                       args[i].page_size, args[i].max_pages)

\* A variant that requests the next page while it yields the last item of a page.
Run_prefetch(i, pl, its, k) ==
    LET d == advance_of(i, pl, its) IN
    IF k < Len(its)
    THEN IF k + 1 = Len(its) /\ ~d.stop
         THEN [pc |-> "yielded", emit |-> <<its[k + 1]>>, idx |-> k + 1,
               page |-> d.page, fetched_pages |-> d.fetched_pages, send |-> TRUE]
         ELSE [pc |-> "yielded", emit |-> <<its[k + 1]>>, idx |-> k + 1,
               page |-> page[i], fetched_pages |-> fetched_pages[i], send |-> FALSE]
    ELSE [pc |-> IF d.stop THEN "done" ELSE "awaiting", emit |-> <<>>, idx |-> k,
          page |-> d.page, fetched_pages |-> d.fetched_pages, send |-> ~d.stop]

\* The generator body from `yield from items` on, with k items of its already
\* yielded: it runs until it suspends at the next yield, suspends in the next
\* page request, or ends.
Run(i, pl, its, k) ==
    IF k < Len(its)
    THEN [pc |-> "yielded", emit |-> <<its[k + 1]>>, idx |-> k + 1,
          page |-> page[i], fetched_pages |-> fetched_pages[i], send |-> FALSE]
    ELSE LET d == advance_of(i, pl, its)
         IN [pc |-> IF d.stop THEN "done" ELSE "awaiting", emit |-> <<>>, idx |-> k,
             page |-> d.page, fetched_pages |-> d.fetched_pages, send |-> ~d.stop]

\* two iterations run against one server
Paired == \A i \in Iters : pc[i] # "off"

\* the last page the model lets an iteration request
PageLimit == IF Paired THEN MaxPage - 1 ELSE MaxPage

\* the generator's frame and the consumer's view after such a run
Suspend(i, pl, its, r) ==
    /\ r.send => r.page <= PageLimit
    /\ pc' = [pc EXCEPT ![i] = r.pc]
    /\ page' = [page EXCEPT ![i] = r.page]
    /\ fetched_pages' = [fetched_pages EXCEPT ![i] = r.fetched_pages]
    /\ payload' = [payload EXCEPT ![i] = pl]
    /\ items' = [items EXCEPT ![i] = its]
    /\ idx' = [idx EXCEPT ![i] = r.idx]
    /\ emitted' = [emitted EXCEPT ![i] = @ \o r.emit]
    /\ outcome' = [outcome EXCEPT ![i] = IF r.pc = "done" THEN "end" ELSE @]
    /\ reqs' = [reqs EXCEPT ![i] = IF r.send THEN Append(@, iter_request(args[i], r.page)) ELSE @]

\* A variant that keeps the cursor and the count on the client: a call made
\* while another iteration is under way goes on from where that one stands.
new_session_shared(a) ==
    IF \E j \in Iters : pc[j] \notin {"new", "off"}
    THEN LET j == CHOOSE j \in Iters : pc[j] \notin {"new", "off"}
         IN [page |-> page[j], fetched_pages |-> fetched_pages[j]]
    ELSE [page |-> a.start_page, fetched_pages |-> 0]

\* A variant that always begins at the first page.
new_session_first(a) == [page |-> 1, fetched_pages |-> 0]

\* the first values of the locals: page = start_page, fetched_pages = 0
new_session(a) == [page |-> a.start_page, fetched_pages |-> 0]

\* The loop of iter_metadata / aiter_metadata run on its own with arguments a,
\* from cursor pg and count fetched, against the answers the server has given
\* so far: the requests it issues, the items it yields and how it ends ("open"
\* where the server has not answered yet).
RECURSIVE alone_from(_, _, _, _)
alone_from(a, pg, fetched, acc) ==
    IF pg > PageLimit THEN acc
    ELSE LET acc1 == [acc EXCEPT !.reqs = Append(@, iter_request(a, pg))] IN
         IF server[pg] = Unset THEN acc1
         ELSE LET out == iter_fetch(a, server[pg]) IN
              IF ~out.ok THEN [acc1 EXCEPT !.outcome = out.kind]
              ELSE LET its == items_of(out.value, coll_key_of(a.collection_key, Resource))
                       d == IF a.mode = "sync"
                            THEN iter_advance(out.value, Len(its), pg, fetched,
                                              a.page_size, a.max_pages)
                            ELSE aiter_advance(out.value, Len(its), pg, fetched,
                                               a.page_size, a.max_pages)
                       acc2 == [acc1 EXCEPT !.items = @ \o its]
                   IN IF d.stop THEN [acc2 EXCEPT !.outcome = "end"]
                      ELSE alone_from(a, d.page, d.fetched_pages, acc2)

AloneRun(a) ==
    alone_from(a, a.start_page, 0, [reqs |-> <<>>, items |-> <<>>, outcome |-> "open"])

\* A variant that tests max_pages before the first fetch.
Start_capped(i) ==
    /\ pc[i] = "new"
    /\ IF args[i].max_pages # None /\ args[i].max_pages.v <= 0
       THEN /\ pc' = [pc EXCEPT ![i] = "done"]
            /\ outcome' = [outcome EXCEPT ![i] = "end"]
            /\ UNCHANGED <<page, fetched_pages, reqs>>
       ELSE /\ pc' = [pc EXCEPT ![i] = "awaiting"]
            /\ page' = [page EXCEPT ![i] = args[i].start_page]
            /\ reqs' = [reqs EXCEPT ![i] = Append(@, iter_request(args[i], args[i].start_page))]
            /\ UNCHANGED <<fetched_pages, outcome>>
    /\ UNCHANGED <<server, args, payload, items, idx, emitted, late, callvars>>

\* the consumer's first next(): the locals are set and page start_page is requested
Start(i) ==
    /\ pc[i] = "new"
    /\ LET s == new_session(args[i]) IN
       /\ s.page <= PageLimit
       /\ pc' = [pc EXCEPT ![i] = "awaiting"]
       /\ page' = [page EXCEPT ![i] = s.page]
       /\ fetched_pages' = [fetched_pages EXCEPT ![i] = s.fetched_pages]
       /\ reqs' = [reqs EXCEPT ![i] = Append(@, iter_request(args[i], s.page))]
    /\ UNCHANGED <<server, args, payload, items, idx, emitted, outcome, late, callvars>>

\* a later next(): the generator resumes after the yield it was suspended at
Pull(i) ==
    /\ pc[i] = "yielded"
    /\ Suspend(i, payload[i], items[i], Run(i, payload[i], items[i], idx[i]))
    /\ UNCHANGED <<server, args, late, callvars>>

\* the responses the server may give for page p in this run
ServerChoices(p) == IF Paired THEN PairResponses(p) ELSE Responses(p)

\* the response to the page request arrives: list_metadata returns or raises,
\* and the generator runs on
Receive(i) ==
    /\ pc[i] = "awaiting"
    /\ \E resp \in ServerChoices(page[i]) :
        /\ server[page[i]] # Unset => resp = server[page[i]]
        /\ server' = [server EXCEPT ![page[i]] = resp]
        /\ LET out == iter_fetch(args[i], resp) IN
           IF ~out.ok
           THEN /\ pc' = [pc EXCEPT ![i] = "raised"]
                /\ outcome' = [outcome EXCEPT ![i] = out.kind]
                /\ UNCHANGED <<page, fetched_pages, payload, items, idx, emitted, reqs>>
           ELSE LET pl == out.value
                    its == items_of(pl, coll_key_of(args[i].collection_key, Resource))
                IN Suspend(i, pl, its, Run(i, pl, its, 0))
    /\ UNCHANGED <<args, late, callvars>>

\* the consumer stops pulling (break): the generator is closed where it stands
Abandon(i) ==
    /\ pc[i] \in {"new", "yielded"}
    /\ pc' = [pc EXCEPT ![i] = "closed"]
    /\ UNCHANGED <<server, args, page, fetched_pages, payload, items, idx, emitted,
                   outcome, reqs, late, callvars>>

\* A variant whose generator starts over when it is pulled after its end.
PullEnded_restart(i) ==
    /\ pc[i] \in {"done", "raised"}
    /\ args[i].start_page <= PageLimit
    /\ late' = [late EXCEPT ![i] = "item"]
    /\ pc' = [pc EXCEPT ![i] = "awaiting"]
    /\ page' = [page EXCEPT ![i] = args[i].start_page]
    /\ reqs' = [reqs EXCEPT ![i] = Append(@, iter_request(args[i], args[i].start_page))]
    /\ UNCHANGED <<server, args, fetched_pages, payload, items, idx, emitted,
                   outcome, callvars>>

\* a next() on a generator that has ended, by leaving its loop or by an
\* exception that went through it: no statement of the body runs again, the
\* consumer gets the end of the sequence
PullEnded(i) ==
    /\ pc[i] \in {"done", "raised"}
    /\ late' = [late EXCEPT ![i] = "end"]
    /\ UNCHANGED <<server, args, pc, page, fetched_pages, payload, items, idx,
                   emitted, outcome, reqs, callvars>>

\* ------------------------------------------------------------ single calls
Methods == {"GET", "POST", "PUT", "PATCH", "DELETE"}
Statuses == {200, 201, 204, 302, 399, 400, 401, 402, 403, 404, 409, 418, 499, 500, 503, 599}

\* the bodies a response to a single call may carry
CallContents ==
    {[t |-> "bytes", v |-> ""], [t |-> "bytes", v |-> "garbage"]}
    \cup {[t |-> "json", v |-> PayloadOf(k, 1, c, g)] :
            k \in {Resource, "items"},
            c \in {<<"absent", 0>>, <<"null", 0>>, <<"list", 0>>, <<"list", 1>>},
            g \in {<<"none", 0>>, <<"nested", 1>>}}

CallResponses == [status : Statuses, ctype : ContentTypes, content : CallContents]

\* the payloads _extract_paging is tried on: "pager" absent, not a mapping, or
\* a mapping with some of the fields; some of the fields at the top level
PagerValues ==
    {None, JStr("x"), JList(<<>>)}
    \cup {JDict([f \in F |-> JInt(1)]) : F \in {{}, {"page", "pageCount"}, PagingFields}}
FlatValues ==
    {[f \in F |-> JInt(2)] : F \in {{}, {"pageCount"}, {"pageSize", "total"}, PagingFields}}
PagingPayloads ==
    FlatValues \cup {Update(fl, [k \in {"pager"} |-> pg]) : fl \in FlatValues, pg \in PagerValues}

\* the arguments list_metadata builds its query from; page and fields are
\* parameters of list_metadata itself, so **extra_params never holds them
ListFields == {Fields, JList(<<"id", "displayName">>), JList(<<"id">>), JList(<<>>)}
ListExtras ==
    ExtraParams \cup
    {[k \in {"pageSize", "totalPages", "order"} |->
        IF k = "pageSize" THEN JInt(7) ELSE IF k = "totalPages" THEN JStr("false") ELSE JStr("name")]}
ListArgs ==
    [fields : ListFields, page : {None, JInt(0), JInt(MaxPage)}, page_size : 1..MaxPageSize,
     total_pages : BOOLEAN, extra_params : ListExtras]

CallInputs ==
    [op : {"life"}, mode : {"sync", "async"}]
    \cup [op : {"params"}, a : ListArgs]
    \cup [op : {"paging"}, payload : PagingPayloads]
    \cup [op : {"request"}, method : Methods, resp : CallResponses]
    \cup [op : {"list"}, resource : {Resource}, collection_key : {None, JStr("items")},
          resp : {r \in CallResponses : r.status \in {200, 204, 404, 500}}]

Pending == [sync |-> <<>>, async |-> <<>>]

\* Dhis2Client._request / AsyncDhis2Client._request on the response given
DoRequest ==
    /\ call.op = "request" /\ result.sync = <<>>
    /\ result' = [result EXCEPT !.sync = <<request(call.method, call.resp)>>]
    /\ UNCHANGED <<itervars, call, conn>>

DoARequest ==
    /\ call.op = "request" /\ result.async = <<>>
    /\ result' = [result EXCEPT !.async = <<arequest(call.method, call.resp)>>]
    /\ UNCHANGED <<itervars, call, conn>>

\* Dhis2Client.list_metadata / AsyncDhis2Client.list_metadata on the response given
DoList ==
    /\ call.op = "list" /\ result.sync = <<>>
    /\ result' = [result EXCEPT
                    !.sync = <<list_metadata(call.resource, call.collection_key, call.resp)>>]
    /\ UNCHANGED <<itervars, call, conn>>

DoAList ==
    /\ call.op = "list" /\ result.async = <<>>
    /\ result' = [result EXCEPT
                    !.async = <<alist_metadata(call.resource, call.collection_key, call.resp)>>]
    /\ UNCHANGED <<itervars, call, conn>>

\* the query Dhis2Client.list_metadata / AsyncDhis2Client.list_metadata sends
DoParams ==
    /\ call.op = "params" /\ result.sync = <<>>
    /\ LET a == call.a IN
       result' = [result EXCEPT !.sync =
           <<Return(list_params(a.fields, a.page, a.page_size, a.total_pages, a.extra_params))>>]
    /\ UNCHANGED <<itervars, call, conn>>

DoAParams ==
    /\ call.op = "params" /\ result.async = <<>>
    /\ LET a == call.a IN
       result' = [result EXCEPT !.async =
           <<Return(alist_params(a.fields, a.page, a.page_size, a.total_pages, a.extra_params))>>]
    /\ UNCHANGED <<itervars, call, conn>>

\* _extract_paging on the payload given
DoExtract ==
    /\ call.op = "paging" /\ result.sync = <<>>
    /\ result' = [result EXCEPT !.sync = <<Return(extract_paging(call.payload))>>]
    /\ UNCHANGED <<itervars, call, conn>>

\* ------------------------------------------------------------ close, __enter__, __exit__
\* self.client as __init__ makes it: `closed` counts the close() / aclose()
\* calls the httpx client has received
NewClient == [closed |-> 0]
NewConn == [client |-> NewClient, ops |-> <<>>]

\* self.client.close() / await self.client.aclose()
client_close(c) == [c EXCEPT !.closed = @ + 1]

\* Dhis2Client.close, AsyncDhis2Client.aclose
close(c) == client_close(c)
aclose(c) == client_close(c)

\* __enter__ / __aenter__ return self
enter(c) == c
aenter(c) == c

\* A variant whose block exit leaves the client as it is.
exit_noclose(c) == c

\* __exit__ / __aexit__
exit(c) == close(c)
aexit(c) == aclose(c)

\* the with blocks entered and not yet left
OpCount(ops, o) == Cardinality({k \in 1..Len(ops) : ops[k] = o})
OpenBlocks == OpCount(conn.ops, "enter") - OpCount(conn.ops, "exit")

Lifecycle == call.op = "life" /\ Len(conn.ops) < MaxCalls

Enter ==
    /\ Lifecycle
    /\ conn' = [client |-> IF call.mode = "sync" THEN enter(conn.client) ELSE aenter(conn.client),
                ops |-> Append(conn.ops, "enter")]
    /\ UNCHANGED <<itervars, call, result>>

Exit ==
    /\ Lifecycle /\ OpenBlocks > 0
    /\ conn' = [client |-> IF call.mode = "sync" THEN exit(conn.client) ELSE aexit(conn.client),
                ops |-> Append(conn.ops, "exit")]
    /\ UNCHANGED <<itervars, call, result>>

Close ==
    /\ Lifecycle
    /\ conn' = [client |-> IF call.mode = "sync" THEN close(conn.client) ELSE aclose(conn.client),
                ops |-> Append(conn.ops, "close")]
    /\ UNCHANGED <<itervars, call, result>>

\* ------------------------------------------------------------ specifications
NoCall == [op |-> "none"]

\* the iterations in `on` were called with arguments from A; nothing was fetched
InitIter(on, A) ==
    /\ server = [p \in Pages |-> Unset]
    /\ args \in [Iters -> A]
    /\ \A i \in Iters \ on : args[i] = args[1]
    /\ pc = [i \in Iters |-> IF i \in on THEN "new" ELSE "off"]
    /\ page = [i \in Iters |-> 0]
    /\ fetched_pages = [i \in Iters |-> 0]
    /\ payload = [i \in Iters |-> EmptyDict]
    /\ items = [i \in Iters |-> <<>>]
    /\ idx = [i \in Iters |-> 0]
    /\ emitted = [i \in Iters |-> <<>>]
    /\ outcome = [i \in Iters |-> "none"]
    /\ reqs = [i \in Iters |-> <<>>]
    /\ late = [i \in Iters |-> "none"]
    /\ call = NoCall
    /\ result = Pending
    /\ conn = NewConn

\* one _request or list_metadata call is about to be made, or one client is
\* about to be entered, left and closed
InitCall ==
    /\ server = [p \in Pages |-> Unset]
    /\ args = [i \in Iters |-> CHOOSE a \in ArgSets : TRUE]
    /\ pc = [i \in Iters |-> "off"]
    /\ page = [i \in Iters |-> 0]
    /\ fetched_pages = [i \in Iters |-> 0]
    /\ payload = [i \in Iters |-> EmptyDict]
    /\ items = [i \in Iters |-> <<>>]
    /\ idx = [i \in Iters |-> 0]
    /\ emitted = [i \in Iters |-> <<>>]
    /\ outcome = [i \in Iters |-> "none"]
    /\ reqs = [i \in Iters |-> <<>>]
    /\ late = [i \in Iters |-> "none"]
    /\ call \in CallInputs
    /\ result = Pending
    /\ conn = NewConn

\* the arguments of two iterations that run against one server
PairArgSets == {a \in ArgSets : a.extra_params = EmptyDict /\ a.max_pages \in {None, JInt(1)}}

Init == InitIter({1}, ArgSets) \/ InitCall

InitPair ==
    \/ /\ InitIter({1, 2}, PairArgSets)
       /\ args[1].page_size = args[2].page_size
       /\ args[1].mode = "sync"
    \/ InitCall

Next ==
    \/ \E i \in Iters : Start(i) \/ Pull(i) \/ Receive(i) \/ Abandon(i) \/ PullEnded(i)
    \/ DoRequest \/ DoARequest \/ DoList \/ DoAList
    \/ DoParams \/ DoAParams \/ DoExtract
    \/ Enter \/ Exit \/ Close

\* one iteration at a time, or one single call
Spec == Init /\ [][Next]_vars

\* two iterations of one client interleaved, or one single call
SpecPair == InitPair /\ [][Next]_vars

\* A consumer that keeps pulling: every next() it owes is made, and the
\* transport returns the answer to every request that was sent.
NextPulling == \E i \in Iters : Start(i) \/ Pull(i) \/ Receive(i)

\* The decision after a page sees page_size only in len(items) < page_size:
\* with page size 1 the server's 0..MaxItems items make short, full and
\* over-full pages.
LiveArgSets == {a \in ArgSets : a.page_size = 1 /\ a.extra_params = EmptyDict}

SpecLive ==
    /\ InitIter({1}, LiveArgSets)
    /\ [][NextPulling]_vars
    /\ WF_vars(NextPulling)

\* ------------------------------------------------------------ what was observed
\* the iterations that were called
Active == {i \in Iters : pc[i] # "off"}

\* the server was asked for page p
Asked(p) == server[p] # Unset

\* the server answered page p with a JSON mapping
JsonAt(p) == Asked(p) /\ server[p].status = 200 /\ server[p].content.t = "json"
BodyAt(p) == server[p].content.v

\* the server answered page p with this collection form and this paging form
ServedAs(p, coll, g) == JsonAt(p) /\ BodyAt(p) = PayloadOf(Resource, p, coll, g)

NoCount == <<"none", 0>>

\* the pageCount the server sent with page p, in "pager" or at the top level
\* (-1: none)
CountAt(p) ==
    IF "pager" \in DOMAIN BodyAt(p) THEN BodyAt(p)["pager"].v["pageCount"].v
    ELSE IF "pageCount" \in DOMAIN BodyAt(p) THEN BodyAt(p)["pageCount"].v
    ELSE -1

\* page p came with an item list
ListAt(p) == JsonAt(p) /\ Resource \in DOMAIN BodyAt(p) /\ BodyAt(p)[Resource].t = "list"

\* the items the server sent for page p (none for a page without an item list)
ItemsAt(p) == IF ListAt(p) THEN BodyAt(p)[Resource].v ELSE <<>>

\* page p came with n items / with pageCount c / without a pageCount
ServedItems(p, n) == ListAt(p) /\ Len(ItemsAt(p)) = n
ServedCount(p, c) == JsonAt(p) /\ CountAt(p) = c
ServedNoCount(p) == JsonAt(p) /\ CountAt(p) = -1

\* the items of pages a..b in page order
RECURSIVE ItemsFrom(_, _)
ItemsFrom(a, b) == IF a > b THEN <<>> ELSE ItemsAt(a) \o ItemsFrom(a + 1, b)

\* the page numbers iteration i requested, in order
ReqPages(i) == [k \in 1..Len(reqs[i]) |-> reqs[i][k]["page"].v]
LastReqPage(i) == ReqPages(i)[Len(reqs[i])]

Uncapped(i) == args[i].max_pages = None

\* ------------------------------------------------------------ C1
\* Every page the server was asked for reports pageCount = C; pages 1..C
\* carry P items each, later pages none (the collection holds N = P * C items).
PagedServer(P, C) ==
    \A p \in Pages : Asked(p) =>
        ServedItems(p, IF p <= C THEN P ELSE 0) /\ ServedCount(p, C)

\* the N = P * C items in per-page order
AllItems(P, C) == [k \in 1..(P * C) |-> <<((k - 1) \div P) + 1, ((k - 1) % P) + 1>>]

PagedRun(i, C) ==
    /\ i \in Active /\ args[i].start_page = 1 /\ Uncapped(i)
    /\ reqs[i] # <<>>
    /\ PagedServer(args[i].page_size, C)

\* C1 as stated: for every N divisible by P (N = 0 included), against a server
\* that reports pageCount = N/P on every page, a complete iteration from page 1
\* without max_pages yields the N items in order with exactly N/P fetches.
C1_AsStated ==
    \A i \in Iters, C \in 0..MaxPageCount :
        PagedRun(i, C) /\ pc[i] = "done" =>
            /\ emitted[i] = AllItems(args[i].page_size, C)
            /\ Len(reqs[i]) = C

\* C1 amended: the same for every N >= P (at least one page); it never
\* requests more than N/P pages on the way.
C1_PagedIteration ==
    \A i \in Iters, C \in 1..MaxPageCount :
        PagedRun(i, C) =>
            /\ Len(reqs[i]) <= C
            /\ pc[i] = "done" =>
                /\ emitted[i] = AllItems(args[i].page_size, C)
                /\ Len(reqs[i]) = C
                /\ ReqPages(i) = [k \in 1..C |-> k]

C1_Witness ==
    /\ PagedRun(1, 2) /\ pc[1] = "done" /\ args[1].page_size = 2
    /\ emitted[1] = <<<<1, 1>>, <<1, 2>>, <<2, 1>>, <<2, 2>>>>

\* ------------------------------------------------------------ C2
\* no page the server was asked for reports a pageCount
UnpagedServer == \A p \in Pages : Asked(p) => ServedNoCount(p)

\* pages a..b were all served full (exactly P items)
FullPages(a, b, P) == \A p \in a..b : ServedItems(p, P)

\* page q is the first page from a on that came with fewer than P items
FirstShort(a, q, P) ==
    /\ q \in Pages /\ a <= q
    /\ FullPages(a, q - 1, P)
    /\ ServedNoCount(q) /\ Len(ItemsAt(q)) < P

\* C2: without pageCount and without max_pages the iteration stops after the
\* first page with fewer than P items: m full pages and then k < P items give
\* exactly m + 1 fetches and m * P + k items.
C2_ShortPageStops ==
    \A i \in Active :
        Uncapped(i) /\ UnpagedServer =>
            /\ \A q \in Pages :
                 FirstShort(args[i].start_page, q, args[i].page_size) =>
                    /\ Len(reqs[i]) = q - args[i].start_page + 1
                    /\ pc[i] \in {"yielded", "done", "closed"}
                    /\ pc[i] = "done" =>
                         /\ emitted[i] = ItemsFrom(args[i].start_page, q)
                         /\ Len(emitted[i]) =
                              (q - args[i].start_page) * args[i].page_size + Len(ItemsAt(q))
            /\ pc[i] = "done" =>
                 /\ Len(ItemsAt(LastReqPage(i))) < args[i].page_size
                 /\ \A p \in args[i].start_page..(LastReqPage(i) - 1) :
                        Len(ItemsAt(p)) >= args[i].page_size

C2_Witness ==
    /\ Uncapped(1) /\ UnpagedServer /\ pc[1] = "done"
    /\ args[1].page_size = 2 /\ args[1].start_page = 1
    /\ ServedItems(1, 2) /\ ServedItems(2, 2) /\ ServedItems(3, 1)
    /\ Len(reqs[1]) = 3 /\ Len(emitted[1]) = 5

\* ------------------------------------------------------------ C3
\* the answer to page p says another page follows: a pageCount beyond p, or no
\* pageCount and at least page_size items
HasFurther(p, P) ==
    \/ JsonAt(p) /\ CountAt(p) > p
    \/ ServedNoCount(p) /\ Len(ItemsAt(p)) >= P

\* every page iteration i requested was answered so
Endless(i) == \A k \in 1..Len(reqs[i]) : HasFurther(ReqPages(i)[k], args[i].page_size)

\* C3 as stated: with max_pages = M, for every M >= 0, an iteration never
\* performs more than M page fetches.
C3_AsStated ==
    \A i \in Active : ~Uncapped(i) => Len(reqs[i]) <= args[i].max_pages.v

\* C3 amended: for every M >= 1 an iteration never performs more than M page
\* fetches; when every page says another follows it performs exactly M and
\* ends normally.
C3_CapBoundsFetches ==
    \A i \in Active :
        ~Uncapped(i) /\ args[i].max_pages.v >= 1 =>
            /\ Len(reqs[i]) <= args[i].max_pages.v
            /\ pc[i] = "done" /\ Endless(i) =>
                 /\ Len(reqs[i]) = args[i].max_pages.v
                 /\ outcome[i] = "end"
                 /\ emitted[i] = ItemsFrom(args[i].start_page, LastReqPage(i))

C3_Witness ==
    /\ args[1].max_pages = JInt(2) /\ pc[1] = "done" /\ Endless(1)
    /\ Len(reqs[1]) = 2 /\ outcome[1] = "end" /\ Len(emitted[1]) >= 2

\* ------------------------------------------------------------ C4
\* C4: no page is fetched beyond the one that supplied the last item the
\* consumer asked for: while the consumer holds an item, and after it stopped
\* pulling, the last page requested is the page of the last item delivered and
\* the fetches are the pages from start_page up to it; a consumer that never
\* pulled caused no fetch.
C4_NoFetchBeyondConsumed ==
    \A i \in Active :
        pc[i] \in {"new", "yielded", "closed"} =>
            IF emitted[i] = <<>>
            THEN reqs[i] = <<>>
            ELSE LET last == emitted[i][Len(emitted[i])] IN
                 /\ LastReqPage(i) = last[1]
                 /\ Len(reqs[i]) = last[1] - args[i].start_page + 1

\* the consumer took the first of several items of the first page and stopped
C4_Witness ==
    /\ pc[1] = "closed" /\ emitted[1] = <<<<1, 1>>>> /\ Len(items[1]) = 2
    /\ Len(reqs[1]) = 1 /\ HasFurther(1, args[1].page_size)

\* ------------------------------------------------------------ C5
\* the error kind the answer to page p stands for: by status, else by a body
\* that is present and is not JSON
ErrorKindAt(p) ==
    LET st == server[p].status IN
    IF st \in {401, 403} THEN "AuthenticationError"
    ELSE IF st = 404 THEN "NotFoundError"
    ELSE IF st \in {400, 409} THEN "ValidationError"
    ELSE IF st >= 400 THEN "ServerError"
    ELSE IF st # 204 /\ server[p].content.t = "bytes" /\ server[p].content.v # ""
    THEN "ServerError"
    ELSE "none"

\* C5: when the fetch of page K fails, the consumer gets that error where page
\* K's first item was due: all items of the earlier pages were emitted, K was
\* requested once and is the last page requested, and the sequence has ended;
\* and no failed fetch is passed over.
C5_ErrorEndsSequence ==
    \A i \in Active :
        /\ pc[i] = "raised" =>
             LET K == LastReqPage(i) IN
             /\ outcome[i] = ErrorKindAt(K) /\ outcome[i] # "none"
             /\ emitted[i] = ItemsFrom(args[i].start_page, K - 1)
             /\ Cardinality({k \in 1..Len(reqs[i]) : ReqPages(i)[k] = K}) = 1
             /\ \A k \in 1..Len(reqs[i]) : ReqPages(i)[k] <= K
        /\ \A k \in 1..Len(reqs[i]) :
             LET q == ReqPages(i)[k] IN
             Asked(q) /\ ErrorKindAt(q) # "none" => pc[i] = "raised" /\ k = Len(reqs[i])

C5_Witness ==
    /\ pc[1] = "raised" /\ outcome[1] = "NotFoundError"
    /\ Len(reqs[1]) = 2 /\ Len(emitted[1]) = 2 /\ server[2].status = 404

\* ------------------------------------------------------------ C6
\* the error kind the status table gives, "none" below 400
KindOfStatus(st) ==
    IF st \in {401, 403} THEN "AuthenticationError"
    ELSE IF st = 404 THEN "NotFoundError"
    ELSE IF st \in {400, 409} THEN "ValidationError"
    ELSE IF st >= 400 THEN "ServerError"
    ELSE "none"

\* the outcomes of the _request calls made so far (sync and async)
RequestOutcomes ==
    IF call.op = "request"
    THEN {result.sync[k] : k \in 1..Len(result.sync)}
         \cup {result.async[k] : k \in 1..Len(result.async)}
    ELSE {}

\* C6: for every method and status the error kind is decided by the status
\* alone, before the body or the content type is looked at: 401/403, 404,
\* 400/409, the other 4xx and 5xx raise their kind whatever the body (an empty
\* one included), and a status below 400 never raises from the status.
C6_StatusDecidesKind ==
    \A out \in RequestOutcomes :
        LET kind == KindOfStatus(call.resp.status) IN
        IF kind # "none"
        THEN ~out.ok /\ out.kind = kind /\ out.msg[1] \in {"text", "status"}
        ELSE out.ok \/ out.msg[1] \in {"ctype", "decode"}

\* an error status with an empty body has raised
C6_Witness ==
    /\ call.op = "request" /\ call.method = "DELETE"
    /\ call.resp.status = 409 /\ NoContent(call.resp)
    /\ result.sync = <<Raise("ValidationError", <<"text">>)>>
    /\ result.async = result.sync

\* ------------------------------------------------------------ C7
\* the outcomes of the list_metadata calls made so far (sync and async)
ListOutcomes ==
    IF call.op = "list"
    THEN {result.sync[k] : k \in 1..Len(result.sync)}
         \cup {result.async[k] : k \in 1..Len(result.async)}
    ELSE {}

\* the collection key the caller resolved: collection_key if given, else resource
CallKey == IF call.collection_key = None THEN call.resource ELSE call.collection_key.v

\* the mapping the server sent: none for 204 or an empty body
SentMapping ==
    IF call.resp.status = 204 \/ NoContent(call.resp) THEN EmptyDict ELSE call.resp.content.v

\* C7: the mapping list_metadata returns always holds the resolved collection
\* key: with an empty list when the server left it out (204 and an empty body
\* included), with the server's value unchanged when the server sent it.
C7_CollectionKeyPresent ==
    \A out \in ListOutcomes :
        out.ok =>
            /\ CallKey \in DOMAIN out.value
            /\ IF CallKey \in DOMAIN SentMapping
               THEN out.value[CallKey] = SentMapping[CallKey]
               ELSE out.value[CallKey] = JList(<<>>)

C7_Witness ==
    /\ call.op = "list" /\ call.collection_key = JStr("items") /\ call.resp.status = 204
    /\ result.sync = <<Return([k \in {"items"} |-> JList(<<>>)])>>
    /\ result.async = result.sync

\* ------------------------------------------------------------ C8
\* page p came without the collection key, or with null under it
ServedKeyless(p) == JsonAt(p) /\ ~ListAt(p)

\* C8: a page without the collection key (or with null under it) gives no item
\* and no error, and the iteration goes on from it as from a page of 0 items:
\* with a pageCount not yet reached it requests the next page (unless max_pages
\* is reached), with a pageCount reached or without one it ends normally.
C8_KeylessPageIsEmpty ==
    \A i \in Active : \A k \in 1..Len(reqs[i]) :
        LET q == ReqPages(i)[k] IN
        ServedKeyless(q) =>
            /\ \A n \in 1..Len(emitted[i]) : emitted[i][n][1] # q
            /\ pc[i] = "raised" => k < Len(reqs[i])
            /\ IF CountAt(q) > q
               THEN IF Uncapped(i) \/ k < args[i].max_pages.v
                    THEN Len(reqs[i]) > k /\ ReqPages(i)[k + 1] = q + 1
                    ELSE Len(reqs[i]) = k /\ pc[i] = "done"
               ELSE Len(reqs[i]) = k /\ pc[i] = "done" /\ outcome[i] = "end"

C8_Witness ==
    /\ ServedAs(1, <<"absent", 0>>, <<"nested", 2>>)
    /\ ServedAs(2, <<"null", 0>>, <<"flat", MaxPageCount>>)
    /\ ReqPages(1) = <<1, 2>> /\ pc[1] = "done" /\ emitted[1] = <<>>

\* ------------------------------------------------------------ C9
IsPrefix(s, t) == Len(s) <= Len(t) /\ \A k \in 1..Len(s) : s[k] = t[k]

\* C9: iterations share no state: whatever the interleaving with another
\* iteration of the same client, the requests an iteration issues, the items it
\* yields and the way it ends are those of the same call run alone against the
\* same server; each starts at its own start_page, also for pages the server
\* has already served to the other (nothing is cached).
C9_IterationsIndependent ==
    \A i \in Active :
        LET r == AloneRun(args[i]) IN
        /\ IsPrefix(reqs[i], r.reqs)
        /\ IsPrefix(emitted[i], r.items)
        /\ reqs[i] # <<>> => ReqPages(i)[1] = args[i].start_page
        /\ pc[i] \in {"done", "raised"} =>
             /\ reqs[i] = r.reqs
             /\ emitted[i] = r.items
             /\ outcome[i] = r.outcome

\* two iterations with different arguments both ran to their end, the second
\* over a page the first had already been served
C9_Witness ==
    /\ Paired /\ pc[1] = "done" /\ pc[2] = "done"
    /\ args[1].start_page = 1 /\ args[2].start_page = 1
    /\ args[1].max_pages = JInt(1) /\ args[2].max_pages = None
    /\ ReqPages(1) = <<1>> /\ ReqPages(2) = <<1, 2>>
    /\ Len(emitted[1]) = 2 /\ Len(emitted[2]) = 4

\* ------------------------------------------------------------ C10
\* iteration 1 and iteration 2 were called with the same arguments, one on the
\* blocking client and one on the cooperative client
EquivPair ==
    /\ Paired
    /\ args[1].mode # args[2].mode
    /\ [args[1] EXCEPT !.mode = "any"] = [args[2] EXCEPT !.mode = "any"]

Ended(i) == pc[i] \in {"done", "raised"}

\* C10: iter_metadata and aiter_metadata, given the same arguments and the same
\* server answers, issue the same requests in the same order, yield the same
\* items in the same order and end the same way (normally or with the same
\* error kind); the two list_metadata variants give the same outcome for the
\* same response.
C10_SyncAsyncEquivalent ==
    /\ EquivPair =>
         /\ IsPrefix(reqs[1], reqs[2]) \/ IsPrefix(reqs[2], reqs[1])
         /\ IsPrefix(emitted[1], emitted[2]) \/ IsPrefix(emitted[2], emitted[1])
         /\ Ended(1) /\ Ended(2) =>
              /\ reqs[1] = reqs[2]
              /\ emitted[1] = emitted[2]
              /\ outcome[1] = outcome[2]
              /\ pc[1] = pc[2]
    /\ call.op = "list" /\ result.sync # <<>> /\ result.async # <<>> =>
         result.sync = result.async

\* both ran over a full first page into the same error on the second
C10_Witness ==
    /\ EquivPair /\ pc[1] = "raised" /\ pc[2] = "raised"
    /\ ReqPages(1) = <<1, 2>> /\ ReqPages(2) = <<1, 2>>
    /\ emitted[1] = <<<<1, 1>>, <<1, 2>>>> /\ emitted[2] = emitted[1]
    /\ outcome[1] = "NotFoundError" /\ outcome[2] = "NotFoundError"

\* ------------------------------------------------------------ C11
\* Every page iteration i requested so far said another page follows, the
\* last of them is the last page followed here, and max_pages (if set) is not
\* reached: the iteration goes on to pages that are not followed any more.
Unending(i) ==
    /\ reqs[i] # <<>> /\ Endless(i)
    /\ LastReqPage(i) = PageLimit
    /\ Uncapped(i) \/ Len(reqs[i]) < args[i].max_pages.v

Releasers == OpCount(conn.ops, "close") + OpCount(conn.ops, "exit")

\* a with block was entered and every block entered was left
ScopeEnded == OpCount(conn.ops, "exit") > 0 /\ OpenBlocks = 0

\* C12 as stated: over any sequence of close() calls and with blocks the
\* underlying client is closed at most once, and exactly once when the scope
\* has ended.
C12_AsStated ==
    call.op = "life" =>
        /\ conn.client.closed <= 1
        /\ ScopeEnded => conn.client.closed = 1

\* C12 amended: the underlying client is closed once for every close() /
\* aclose() call and once for every block left: never before the first of
\* them, at least once when the scope has ended, exactly once when exactly one
\* of them was made.
C12_ClosedOncePerCall ==
    call.op = "life" =>
        /\ conn.client.closed = Releasers
        /\ ScopeEnded => conn.client.closed >= 1
        /\ Releasers = 1 => conn.client.closed = 1

\* close() inside a with block: the block's exit closes the client again
C12_Witness ==
    /\ call.op = "life" /\ conn.ops = <<"enter", "close", "exit">>
    /\ conn.client.closed = 2

\* ------------------------------------------------------------ C13
\* the requests of iteration i the server has not answered yet
InFlight(i) == {k \in 1..Len(reqs[i]) : ~Asked(ReqPages(i)[k])}

\* C13: the k-th request of an iteration is for page start_page + k - 1; a
\* request is in flight only while the generator waits for it, one at a time;
\* when a request is issued every item of the pages before it has been
\* emitted; and a page is requested only after the answer to the page before
\* it said that another follows.
C13_OnePageAtATime ==
    \A i \in Active :
        /\ ReqPages(i) = [k \in 1..Len(reqs[i]) |-> args[i].start_page + k - 1]
        /\ InFlight(i) = IF pc[i] = "awaiting" THEN {Len(reqs[i])} ELSE {}
        /\ reqs[i] # <<>> =>
             /\ IsPrefix(ItemsFrom(args[i].start_page, LastReqPage(i) - 1), emitted[i])
             /\ pc[i] = "awaiting" =>
                  emitted[i] = ItemsFrom(args[i].start_page, LastReqPage(i) - 1)
        /\ \A k \in 1..(Len(reqs[i]) - 1) : HasFurther(ReqPages(i)[k], args[i].page_size)

\* the second request is in flight, after both items of the first page
C13_Witness ==
    /\ pc[1] = "awaiting" /\ args[1].start_page = 2 /\ ReqPages(1) = <<2, 3>>
    /\ emitted[1] = <<<<2, 1>>, <<2, 2>>>> /\ InFlight(1) = {2}

\* ------------------------------------------------------------ C14
\* the decision after the k-th page of iteration i has been taken
Decided(i, k) == k < Len(reqs[i]) \/ (k = Len(reqs[i]) /\ pc[i] = "done")

\* after its k-th page the iteration ended, with this cursor
StoppedAt(i, k, cursor) == Len(reqs[i]) = k /\ pc[i] = "done" /\ page[i] = cursor

\* after its k-th page the iteration went on to page q, unless max_pages was
\* reached with that page
WentOn(i, k, q) ==
    IF Uncapped(i) \/ k < args[i].max_pages.v
    THEN Len(reqs[i]) > k /\ ReqPages(i)[k + 1] = q
    ELSE StoppedAt(i, k, q)

\* C14: after a page that carries a pageCount the cursor advances by 1 and the
\* iteration stops iff the new cursor exceeds pageCount, whatever the number of
\* items of the page (none, fewer than, as many as or more than the page
\* size); otherwise the next page is requested (max_pages permitting).
C14_PageCountDecides ==
    \A i \in Active : \A k \in 1..Len(reqs[i]) :
        LET q == ReqPages(i)[k] IN
        JsonAt(q) /\ CountAt(q) >= 0 /\ Decided(i, k) =>
            IF q + 1 > CountAt(q)
            THEN StoppedAt(i, k, q + 1)
            ELSE WentOn(i, k, q + 1)

\* an empty first page with pageCount 2 was followed by the request for page 2,
\* and an over-full second page ended the iteration
C14_Witness ==
    /\ Uncapped(1) /\ args[1].page_size = 1 /\ pc[1] = "done"
    /\ ServedItems(1, 0) /\ ServedCount(1, 2)
    /\ ServedItems(2, 2) /\ ServedCount(2, 2)
    /\ ReqPages(1) = <<1, 2>> /\ page[1] = 3

\* ------------------------------------------------------------ C15
\* the answer to page p was taken without error and carried no pageCount
\* (a 204 answer included)
NoCountAt(p) == ServedNoCount(p) \/ (Asked(p) /\ server[p] = Empty(204))

\* C15 as stated: after a page without pageCount the cursor advances only if
\* the page had exactly page_size items; with fewer or with more the iteration
\* stops after that page.
C15_AsStated ==
    \A i \in Active : \A k \in 1..Len(reqs[i]) :
        LET q == ReqPages(i)[k] IN
        NoCountAt(q) /\ Decided(i, k) =>
            IF Len(ItemsAt(q)) = args[i].page_size
            THEN WentOn(i, k, q + 1)
            ELSE Len(reqs[i]) = k /\ pc[i] = "done"

\* C15 amended: after a page without pageCount the iteration stops, with the
\* cursor unchanged, iff the page had fewer than page_size items; with
\* page_size items or more the cursor advances by 1 and the next page is
\* requested (max_pages permitting).
C15_ShortPageDecides ==
    \A i \in Active : \A k \in 1..Len(reqs[i]) :
        LET q == ReqPages(i)[k] IN
        NoCountAt(q) /\ Decided(i, k) =>
            IF Len(ItemsAt(q)) >= args[i].page_size
            THEN WentOn(i, k, q + 1)
            ELSE StoppedAt(i, k, q)

\* a first page with more items than the page size was followed by the
\* request for page 2, whose short page ended the iteration
C15_Witness ==
    /\ Uncapped(1) /\ args[1].page_size = 1 /\ pc[1] = "done"
    /\ ServedItems(1, 2) /\ ServedNoCount(1)
    /\ ServedItems(2, 0) /\ ServedNoCount(2)
    /\ ReqPages(1) = <<1, 2>> /\ page[1] = 2 /\ Len(emitted[1]) = 2

\* ------------------------------------------------------------ C16
\* C16: every page request of an iteration carries totalPages=true, whatever
\* the arguments of the caller, extra query parameters included.
C16_AlwaysTotalPages ==
    \A i \in Active : \A k \in 1..Len(reqs[i]) :
        /\ "totalPages" \in DOMAIN reqs[i][k]
        /\ reqs[i][k]["totalPages"] = JStr("true")

\* ------------------------------------------------------------ C17
\* the payload has a nested pager object
HasPager(pl) == "pager" \in DOMAIN pl /\ pl["pager"].t = "dict"

\* C17: _extract_paging gives a value for every payload: the four fields page,
\* pageSize, pageCount and total, each taken from the nested pager object when
\* the payload has one (null where the pager lacks it), otherwise from the
\* top-level keys (null where absent); all four are null when the payload has
\* neither.
C17_PagingExtraction ==
    call.op = "paging" /\ result.sync # <<>> =>
        LET pl == call.payload
            out == result.sync[1]
        IN /\ out.ok
           /\ DOMAIN out.value = PagingFields
           /\ \A f \in PagingFields :
                out.value[f] =
                    IF HasPager(pl)
                    THEN IF f \in DOMAIN pl["pager"].v THEN pl["pager"].v[f] ELSE None
                    ELSE IF f \in DOMAIN pl THEN pl[f] ELSE None
           /\ ~HasPager(pl) /\ PagingFields \cap DOMAIN pl = {} =>
                \A f \in PagingFields : out.value[f] = None

\* a pager object with two of the fields beside all four at the top level
C17_Witness ==
    /\ call.op = "paging"
    /\ HasPager(call.payload) /\ DOMAIN call.payload["pager"].v = {"page", "pageCount"}
    /\ PagingFields \subseteq DOMAIN call.payload
    /\ result.sync = <<Return([page |-> JInt(1), pageSize |-> None,
                               pageCount |-> JInt(1), total |-> None])>>

\* ------------------------------------------------------------ C18
\* C18: for a status that is not an error status _request gives exactly one
\* outcome, decided in this order: status 204 or an empty body returns an empty
\* mapping whatever the content type and the bytes; otherwise a content type
\* that does not name JSON raises ServerError; otherwise bytes that do not
\* decode raise ServerError; otherwise the decoded body is returned.
C18_RequestOrder ==
    \A out \in RequestOutcomes :
        LET r == call.resp IN
        KindOfStatus(r.status) = "none" =>
            IF r.status = 204 \/ r.content = [t |-> "bytes", v |-> ""]
            THEN out = Return(EmptyDict)
            ELSE IF r.ctype \notin {"application/json", "Application/JSON; charset=UTF-8"}
            THEN ~out.ok /\ out.kind = "ServerError" /\ out.msg[1] = "ctype"
            ELSE IF r.content.t = "bytes"
            THEN ~out.ok /\ out.kind = "ServerError" /\ out.msg[1] = "decode"
            ELSE out = Return(r.content.v)

\* a 204 answer with an HTML content type and bytes that are not JSON gave an
\* empty mapping
C18_Witness ==
    /\ call.op = "request" /\ call.resp.status = 204
    /\ call.resp.ctype = "text/html" /\ call.resp.content = [t |-> "bytes", v |-> "garbage"]
    /\ result.sync = <<Return(EmptyDict)>> /\ result.async = result.sync

\* ------------------------------------------------------------ C19
\* the queries built so far (sync and async)
ParamOutcomes ==
    IF call.op = "params"
    THEN {result.sync[k] : k \in 1..Len(result.sync)}
         \cup {result.async[k] : k \in 1..Len(result.async)}
    ELSE {}

\* the comma-joined text of the fields given
JoinedFields(f) ==
    IF f.t = "str" THEN f.v
    ELSE IF f.v = <<"id", "displayName">> THEN "id,displayName"
    ELSE IF f.v = <<"id">> THEN "id"
    ELSE ""

\* C19: the query of list_metadata holds exactly fields (comma-joined) and
\* pageSize, page when a page number was given (0 included), totalPages "true"
\* when total_pages was requested, and every extra parameter; an extra
\* parameter with the key of a built-in one replaces its value.
C19_ListParams ==
    \A out \in ParamOutcomes :
        LET a == call.a
            q == out.value
            builtin == {"fields", "pageSize"}
                       \cup (IF a.page = None THEN {} ELSE {"page"})
                       \cup (IF a.total_pages THEN {"totalPages"} ELSE {})
        IN /\ DOMAIN q = builtin \cup DOMAIN a.extra_params
           /\ \A k \in DOMAIN q :
                q[k] = IF k \in DOMAIN a.extra_params THEN a.extra_params[k]
                       ELSE IF k = "fields" THEN JStr(JoinedFields(a.fields))
                       ELSE IF k = "pageSize" THEN JInt(a.page_size)
                       ELSE IF k = "page" THEN a.page
                       ELSE JStr("true")

\* page 0 and total pages asked for, two fields joined, extra parameters that
\* take the place of pageSize and totalPages
C19_Witness ==
    /\ call.op = "params" /\ call.a.fields = JList(<<"id", "displayName">>)
    /\ call.a.page = JInt(0) /\ call.a.total_pages /\ call.a.page_size = 2
    /\ result.sync = <<Return([fields |-> JStr("id,displayName"), pageSize |-> JInt(7),
                               page |-> JInt(0), totalPages |-> JStr("false"),
                               order |-> JStr("name")])>>
    /\ result.async = result.sync

\* ------------------------------------------------------------ C20
Max(a, b) == IF a >= b THEN a ELSE b

\* the consumer of iteration i has asked for an item
HasPulled(i) == pc[i] \in {"awaiting", "yielded", "done", "raised"} \/ reqs[i] # <<>>

\* C20: an iteration whose consumer asked for an item has fetched at least
\* once, and its first fetch was for page start_page, whatever max_pages (0 and
\* negative values included) and whatever pageCount the server reports; with
\* max_pages = M it never fetches more than max(1, M) times, so a complete
\* iteration has between 1 and max(1, M) fetches.
C20_AtLeastOneFetch ==
    \A i \in Active :
        /\ HasPulled(i) => Len(reqs[i]) >= 1 /\ ReqPages(i)[1] = args[i].start_page
        /\ ~Uncapped(i) =>
             /\ Len(reqs[i]) <= Max(1, args[i].max_pages.v)
             /\ Ended(i) => Len(reqs[i]) >= 1

\* max_pages = -1 and a start page beyond the server's pageCount: one fetch,
\* whose items were emitted
C20_Witness ==
    /\ args[1].max_pages = JInt(-1) /\ args[1].start_page = 2 /\ pc[1] = "done"
    /\ ServedCount(2, 1) /\ ServedItems(2, 2)
    /\ ReqPages(1) = <<2>> /\ emitted[1] = <<<<2, 1>>, <<2, 2>>>>

\* ------------------------------------------------------------ C21
Min(a, b) == IF a <= b THEN a ELSE b

\* every page the server was asked for reports pageCount = C, whatever its items
ConstantCount(C) == \A p \in Pages : Asked(p) => ServedCount(p, C)

\* the fetches of an uncapped iteration from page s against such a server
FetchesFor(s, C) == Max(1, C - s + 1)

\* C21: against a server that reports pageCount = C (C >= 0) on every page, a
\* complete iteration from start_page = s without max_pages requests exactly
\* the pages s .. max(s, C), that is max(1, C - s + 1) fetches; with
\* max_pages = M >= 1 exactly the first min(M, max(1, C - s + 1)) of them; the
\* items of every page fetched are emitted, those of page s also when s > C.
C21_ConstantPageCount ==
    \A i \in Active, C \in 0..MaxPageCount :
        LET s == args[i].start_page
            n == IF Uncapped(i) THEN FetchesFor(s, C)
                 ELSE Min(args[i].max_pages.v, FetchesFor(s, C))
        IN pc[i] = "done" /\ ConstantCount(C) /\ (Uncapped(i) \/ args[i].max_pages.v >= 1) =>
               /\ ReqPages(i) = [k \in 1..n |-> s + k - 1]
               /\ Uncapped(i) => LastReqPage(i) = Max(s, C)
               /\ emitted[i] = ItemsFrom(s, s + n - 1)

\* from page 2 against pageCount 1: the one page was fetched and its items
\* were emitted
C21_Witness ==
    /\ pc[1] = "done" /\ Uncapped(1) /\ args[1].start_page = 2
    /\ ConstantCount(1) /\ ServedItems(2, 2)
    /\ ReqPages(1) = <<2>> /\ emitted[1] = <<<<2, 1>>, <<2, 2>>>>

\* ------------------------------------------------------------ C22
\* what page q's own response says about a further page: its pageCount when it
\* carries one, else whether it is a full page of P items
OwnFurther(q, P) ==
    IF JsonAt(q) /\ CountAt(q) >= 0 THEN q + 1 <= CountAt(q)
    ELSE Len(ItemsAt(q)) >= P

\* C22: whether the iteration goes on after a page depends on that page's own
\* response only: on its pageCount if it carries one, on its number of items
\* if it does not, whatever the earlier pages carried (max_pages permitting);
\* the page requested next is the following one.
C22_OwnResponseDecides ==
    \A i \in Active : \A k \in 1..Len(reqs[i]) :
        LET q == ReqPages(i)[k] IN
        Decided(i, k) =>
            /\ Len(reqs[i]) > k <=>
                   /\ OwnFurther(q, args[i].page_size)
                   /\ Uncapped(i) \/ k < args[i].max_pages.v
            /\ Len(reqs[i]) > k => ReqPages(i)[k + 1] = q + 1

\* page 1 came with pageCount 2, page 2 without a pageCount and full, page 3
\* with pageCount 1: the iteration went on twice and ended after page 3
C22_Witness ==
    /\ pc[1] = "done" /\ Uncapped(1) /\ args[1].page_size = 1
    /\ ReqPages(1) = <<1, 2, 3>>
    /\ ServedCount(1, 2)
    /\ ServedNoCount(2) /\ ServedItems(2, 1)
    /\ ServedCount(3, 1)

\* ------------------------------------------------------------ C23
\* C23: an iteration that has ended, by exhaustion, by the max_pages cap or by
\* a fetch error that went to the consumer, stays ended: a later pull gives
\* the end of the sequence, issues no page request, emits nothing and leaves
\* the way it ended as it was.
C23_EndedForGood ==
    [][\A i \in Iters :
          Ended(i) =>
              /\ pc'[i] = pc[i] /\ outcome'[i] = outcome[i]
              /\ reqs'[i] = reqs[i] /\ emitted'[i] = emitted[i]
              /\ late'[i] \in {late[i], "end"}
              /\ late'[i] # late[i] => UNCHANGED <<server, page, fetched_pages>>]_vars

\* an iteration that failed on its second page was pulled again
C23_Witness ==
    /\ pc[1] = "raised" /\ Len(reqs[1]) = 2 /\ Len(emitted[1]) >= 1
    /\ late[1] = "end"

====
